---- MODULE Spec2Model ----
(***************************************************************************)
(* The multi-agent conversation state machine of temporal.agent:           *)
(* AgentWorkflow (workflow.py), started by Session (session.py), with the  *)
(* language model gateway (llm_manager.py), the local-tool activities and  *)
(* the external callers (prompt updates, thought queries) as environment.  *)
(*                                                                         *)
(* A workflow instance is one record of the stack inst: inst[1] is the     *)
(* root, inst[d+1] the child workflow instance d is awaiting.  A step of   *)
(* the model runs one coroutine from the event that resumes it to its next *)
(* suspension point (an awaited activity, child workflow or wait           *)
(* condition), which is how the workflow event loop schedules it.          *)
(***************************************************************************)
EXTENDS Integers, Sequences, FiniteSets, TLC

\* Bounds of the model.
MaxLLMCalls == 4
MaxPrompts == 2

VARIABLES
  inst,       \* stack of live workflow instances, root first
  calls,      \* the prompt update calls made so far, with their futures
  llm_calls,  \* number of call_llm activities started
  llm_trace,  \* the gateway's answers so far, in order
  polls,      \* the get_model_content queries answered so far
  build,      \* the LLMManager being built for the application's root agent
  console     \* the AgentConsole attached to the root's session

vars == <<inst, calls, llm_calls, llm_trace, polls, build, console>>

----------------------------------------------------------------------------
\* Content model (vertexai Content / Part in their dict form).

TextPart(t) ==
  [kind |-> "text", name |-> "", text |-> t, args |-> <<>>, content |-> <<>>]

FunctionCallPart(n, a) ==
  [kind |-> "function_call", name |-> n, text |-> "", args |-> a, content |-> <<>>]

\* Part.from_function_response(name, response={"content": func_rsp}): func_rsp is
\* a tool's raw result (text) or a child workflow's returned list (content).
FunctionResponsePart(n, t, c) ==
  [kind |-> "function_response", name |-> n, text |-> t, args |-> <<>>, content |-> c]

Content(role, parts) == [role |-> role, parts |-> parts]

UserText(t) == Content("user", <<TextPart(t)>>)

\* Python's xs[k:] for a list xs and an integer k.
PySliceFrom(xs, k) ==
  LET n == Len(xs)
      lo == IF k < 0 THEN (IF n + k < 0 THEN 0 ELSE n + k)
            ELSE (IF k > n THEN n ELSE k)
  IN SubSeq(xs, lo + 1, n)

IsPrefix(xs, ys) ==
  /\ Len(xs) <= Len(ys)
  /\ SubSeq(ys, 1, Len(xs)) = xs

Last(xs) == xs[Len(xs)]

----------------------------------------------------------------------------
\* The composed agents (Agent objects): a root with one local tool and one
\* sub-agent, which has one local tool of its own.

SubAgent ==
  [name |-> "sub", functions |-> <<"lookup">>, sub_agents |-> <<>>]

RootAgent ==
  [name |-> "root", functions |-> <<"greet">>, sub_agents |-> <<SubAgent>>]

\* A composition three agents deep: a root whose sub-agent has a sub-agent.
DeepLeaf ==
  [name |-> "leaf", functions |-> <<"lookup">>, sub_agents |-> <<>>]

DeepMid ==
  [name |-> "mid", functions |-> <<"lookup">>, sub_agents |-> <<DeepLeaf>>]

DeepRoot ==
  [name |-> "top", functions |-> <<"greet">>, sub_agents |-> <<DeepMid>>]

AllAgents == {RootAgent, SubAgent, DeepRoot, DeepMid, DeepLeaf}

AgentNamed(n) == CHOOSE a \in AllAgents : a.name = n

SubAgentNames(agent) ==
  {agent.sub_agents[i].name : i \in 1..Len(agent.sub_agents)}

\* Session._agent_hierarchy: {sub_agent.name: hierarchy(sub_agent)}.
\* The sub-agent a dict comprehension over agent.sub_agents keeps for the key
\* n: the last one of that name.
SubAgentNamed(agent, n) ==
  agent.sub_agents[CHOOSE i \in 1..Len(agent.sub_agents) :
                     /\ agent.sub_agents[i].name = n
                     /\ \A j \in (i + 1)..Len(agent.sub_agents) :
                          agent.sub_agents[j].name # n]

RECURSIVE AgentHierarchy(_)
AgentHierarchy(agent) ==
  [n \in SubAgentNames(agent) |-> AgentHierarchy(SubAgentNamed(agent, n))]

\* Runner._agent_tree: {agent.name: {sub_agent.name: tree(sub_agent)}}.
RECURSIVE AgentTree(_)
AgentTree(agent) ==
  [r \in {agent.name} |->
     [n \in SubAgentNames(agent) |-> AgentTree(SubAgentNamed(agent, n))]]

\* Runner._process_functions: the functions of an agent and of every agent
\* below it, which the worker registers as activities under their own names.
RECURSIVE ProcessFunctions(_)
ProcessFunctions(agent) ==
  {agent.functions[i] : i \in 1..Len(agent.functions)}
    \cup UNION {ProcessFunctions(agent.sub_agents[i]) : i \in 1..Len(agent.sub_agents)}

RegisteredActivities == ProcessFunctions(RootAgent)

\* The local tools whose single parameter is a dataclass, with the name of
\* that parameter, and the value the model means to pass: the dataclass as
\* its ordered (field, value) pairs.
DataclassTools == {"greet"}

ParamName(n) == "request"

ToolArgument(n) == << <<"name", "Tao">>, <<"lang", "en">> >>

FieldNames(value) == [i \in 1..Len(value) |-> value[i][1]]

\* Mutant of DataclassParameters: only the first field is declared.
DataclassParametersFirstField(param_name, field_names) ==
  << [name |-> param_name, fields |-> <<field_names[1]>>] >>

\* create_function_declaration_with_dataclass_support: the properties of the
\* declared parameters, one object property named after the parameter which
\* holds the dataclass fields.
DataclassParameters(param_name, field_names) ==
  << [name |-> param_name, fields |-> field_names] >>

\* The arguments a model emits for a declaration when it means value: per
\* declared property, the fields the property holds or the field it names.
EmitArgs(properties, value) ==
  [i \in 1..Len(properties) |->
     IF properties[i].fields # <<>>
     THEN << properties[i].name,
             SelectSeq(value, LAMBDA fv :
                         \E j \in 1..Len(properties[i].fields) :
                           properties[i].fields[j] = fv[1]) >>
     ELSE << properties[i].name,
             value[CHOOSE j \in 1..Len(value) : value[j][1] = properties[i].name][2] >>]

\* The structured arguments the model supplies with an action, as the ordered
\* (key, value) pairs of func.args.
ArgsOf(n) ==
  CASE n \in DataclassTools ->
         EmitArgs(DataclassParameters(ParamName(n), FieldNames(ToolArgument(n))),
                  ToolArgument(n))
    [] n = "lookup" -> << <<"order_id", "123">>, <<"email", "tao@example.com">> >>
    [] OTHER -> << <<"order_id", "123">> >>

\* Mutant of JsonDumps: the serialization is the empty string.
JsonDumpsEmpty(a) == ""

\* json.dumps(func.args) on the argument maps of the model.
JsonDumps(a) ==
  CASE a = <<>> -> "{}"
    [] a = << <<"name", "Tao">> >> -> "{\"name\": \"Tao\"}"
    [] a = << <<"order_id", "123">> >> -> "{\"order_id\": \"123\"}"
    [] OTHER -> "{...}"

\* next(iter(func.args.values()), dict()), then wrapped in a 1-tuple.
FirstArgTuple(a) == IF a = <<>> THEN <<"dict()">> ELSE << a[1][2] >>

----------------------------------------------------------------------------
\* The gateway's candidate turns for an agent (GenerationResponse.candidates[0]).

NoContent == Content("model", <<>>)

MalformedCandidate ==
  [finish_reason |-> "MALFORMED_FUNCTION_CALL",
   finish_message |-> "malformed function call",
   content |-> NoContent]

StopCandidate(t) ==
  [finish_reason |-> "STOP", finish_message |-> "",
   content |-> Content("model", <<TextPart(t)>>)]

\* A turn cut short (no action requested, finish reason other than STOP).
MaxTokensCandidate(t) ==
  [finish_reason |-> "MAX_TOKENS", finish_message |-> "",
   content |-> Content("model", <<TextPart(t)>>)]

CallCandidate(n) ==
  [finish_reason |-> "STOP", finish_message |-> "",
   content |-> Content("model", <<FunctionCallPart(n, ArgsOf(n))>>)]

\* A turn with text between the actions it requests.
ThinkAndCallCandidate(t, n, m) ==
  [finish_reason |-> "STOP", finish_message |-> "",
   content |-> Content("model", <<TextPart(t), FunctionCallPart(n, ArgsOf(n)),
                                  TextPart("and then"),
                                  FunctionCallPart(m, ArgsOf(m))>>)]

FinalTexts == {"T1", "T2"}

\* The names LLMManager._build_llms declares to the gateway for an agent: its
\* functions and its direct sub-agents.
DeclaredTools(agent) == {agent.functions[i] : i \in 1..Len(agent.functions)}

DeclaredNames(agent) == DeclaredTools(agent) \cup SubAgentNames(agent)

\* LLMManager: todo is the agents _build_llms has still to visit (the pending
\* calls of its recursion, next first), llms the table built so far, which
\* maps an agent name to the definition its model and tool were built from
\* and the names that tool declares.
NewBuild(root_agent) ==
  [root |-> root_agent, todo |-> <<root_agent>>, llms |-> <<>>]

\* self.llms[agent.name] = [model, tool]
PutLLM(llms, agent) ==
  [n \in DOMAIN llms \cup {agent.name} |->
     IF n = agent.name
     THEN [agent |-> agent, declared |-> DeclaredNames(agent)]
     ELSE llms[n]]

\* One invocation of _build_llms: the entry of the agent, then its sub-agents.
BuildLLMs(b) ==
  LET agent == Head(b.todo)
  IN [b EXCEPT !.llms = PutLLM(@, agent),
               !.todo = agent.sub_agents \o Tail(@)]

\* LLMManager.__init__: _build_llms to the end of its recursion.
RECURSIVE BuildAll(_)
BuildAll(b) == IF b.todo = <<>> THEN b ELSE BuildAll(BuildLLMs(b))

Candidates(agent_name) ==
  LET agent == AgentNamed(agent_name)
      tool == agent.functions[1]
  IN {MalformedCandidate}
     \cup {StopCandidate(t) : t \in FinalTexts}
     \cup {MaxTokensCandidate("cut")}
     \cup {CallCandidate(n) : n \in DeclaredNames(agent)}
     \cup {ThinkAndCallCandidate("thinking", tool, n) : n \in SubAgentNames(agent)}

ToolResults == {"hi Tao"}

\* The prompts external callers send; "END" is the termination sentinel.
Prompts == {"hi", "END"}

----------------------------------------------------------------------------
\* Workflow instances.

NoCall == [agent_name |-> "", contents |-> <<>>]

NoActivity == [name |-> "", args |-> <<>>]

\* The identifier the client starts the root workflow under.
RootWorkflowId == <<"wf">>

\* secrets.token_hex(3): three fresh random bytes as hex digits, a bounded
\* sample of its values.
TokenHex == {"0a1b2c", "ffffff"}

\* child_id = f"{workflow.info().workflow_id}/{func.name}-{secrets.token_hex(3)}"
ChildId(workflow_id, name, token) == workflow_id \o <<name, token>>

AgentWorkflowInput(agent_name, sub_agents, prompt, contents, is_root_agent) ==
  [agent_name |-> agent_name, sub_agents |-> sub_agents, prompt |-> prompt,
   contents |-> contents, is_root_agent |-> is_root_agent]

\* AgentWorkflow.__init__, plus the locals of the run coroutine: pc is the
\* suspension point run is at, count the length _wait_for_prompt captured,
\* funcs/fidx/parts the loop state of _handle_function_calls, llm_input and
\* activity the arguments of the activity in flight, result what run returned,
\* signals the add_model_content signals delivered but not yet handled.
\* emit, outbox, spawn and newcall are the commands this step issues.
\* workflow_id is workflow.info().workflow_id, the identifier the instance
\* was started under.
NewInstance(agent_input, workflow_id) ==
  [agent_input |-> agent_input, workflow_id |-> workflow_id,
   agent_name |-> "", is_root_agent |-> FALSE, sub_agents |-> <<>>,
   contents |-> <<>>, contents_starts_at |-> 0,
   pending_respond |-> 0, terminate |-> FALSE, model_contents |-> <<>>,
   pc |-> "start", count |-> 0,
   funcs |-> <<>>, fidx |-> 0, parts |-> <<>>,
   llm_input |-> NoCall, activity |-> NoActivity,
   result |-> <<>>, signals |-> <<>>,
   emit |-> <<>>, outbox |-> <<>>, spawn |-> <<>>, newcall |-> FALSE]

\* self.pending_respond.set_result(text)
SetResult(s, text) ==
  [s EXCEPT !.emit = Append(@, [fut |-> s.pending_respond, result |-> text])]

\* _call_llm up to the awaited call_llm activity.
CallLLM(s) ==
  [s EXCEPT !.pc = "await_llm",
            !.llm_input = [agent_name |-> s.agent_name, contents |-> s.contents],
            !.newcall = TRUE]

\* _wait_for_prompt up to the awaited wait condition.
WaitForPrompt(s) ==
  [s EXCEPT !.pc = "wait_prompt", !.count = Len(s.contents)]

\* The end of run for a root whose loop has ended: lines 103-104.
ExitRun(s) ==
  [(IF s.pending_respond # 0 THEN SetResult(s, "") ELSE s) EXCEPT !.pc = "done"]

\* Mutant of LoopTop: the loop goes on whatever the terminate flag.
LoopTopIgnoresTerminate(s) == CallLLM(s)

\* The loop condition of run (while not self.terminate), from which the
\* coroutine goes on to the gateway call or leaves the loop.
LoopTop(s) == IF s.terminate THEN ExitRun(s) ELSE CallLLM(s)

\* Mutants of Delta: the whole history returned, and the slice taken one
\* entry late.
DeltaWholeHistory(s) == s.contents

DeltaSkipPrompt(s) == PySliceFrom(s.contents, s.contents_starts_at + 1)

\* return [c.to_dict() for c in self.contents[self.contents_starts_at:]]
Delta(s) == PySliceFrom(s.contents, s.contents_starts_at)

\* Mutant of InvokeAsChildWorkflow: the child is given the parent's whole tree.
InvokeAsChildWorkflowWholeTree(s, func) ==
  [s EXCEPT !.pc = "await_child",
            !.spawn = << AgentWorkflowInput(func.name, s.sub_agents,
                                            JsonDumps(func.args), s.contents, FALSE) >>]

InvokeAsChildWorkflow(s, func) ==
  [s EXCEPT !.pc = "await_child",
            !.spawn = << AgentWorkflowInput(func.name, s.sub_agents[func.name],
                                            JsonDumps(func.args), s.contents, FALSE) >>]

\* Mutant of InvokeAsActivity: the gateway is called along with the tool.
InvokeAsActivityAndCall(s, func) ==
  [CallLLM(s) EXCEPT !.pc = "await_activity",
                     !.activity = [name |-> func.name, args |-> FirstArgTuple(func.args)]]

InvokeAsActivity(s, func) ==
  [s EXCEPT !.pc = "await_activity",
            !.activity = [name |-> func.name, args |-> FirstArgTuple(func.args)]]

\* _handle_function_calls: the for loop at the function call fidx, and the
\* append of the collected parts once every call has been answered.
DispatchNext(s) ==
  IF s.fidx > Len(s.funcs)
  THEN LoopTop([s EXCEPT !.contents = Append(@, Content("user", s.parts)),
                         !.funcs = <<>>, !.fidx = 0, !.parts = <<>>])
  ELSE LET func == s.funcs[s.fidx]
       IN IF func.name \in DOMAIN s.sub_agents
          THEN InvokeAsChildWorkflow(s, func)
          ELSE InvokeAsActivity(s, func)

\* Mutant of CollectPart: the response part is put before the earlier ones.
CollectPartPrepended(s, part) ==
  DispatchNext([s EXCEPT !.parts = <<part>> \o @, !.fidx = @ + 1,
                         !.activity = NoActivity])

\* Mutant of CollectPart: the response part is not collected.
CollectPartDropped(s, part) ==
  DispatchNext([s EXCEPT !.fidx = @ + 1, !.activity = NoActivity])

\* The response part of the call just answered, and on to the next call.
CollectPart(s, part) ==
  DispatchNext([s EXCEPT !.parts = Append(@, part), !.fidx = @ + 1,
                         !.activity = NoActivity])

\* Mutant of ThoughtsOf: the text parts are logged last part first.
ThoughtsOfReversed(content) ==
  LET ts == SelectSeq(content.parts, LAMBDA p : p.kind = "text" /\ p.text # "")
  IN IF content.role = "model"
     THEN [i \in 1..Len(ts) |-> ts[Len(ts) + 1 - i].text]
     ELSE <<>>

\* The text parts of a model turn that _store_content logs (if part.text).
ThoughtsOf(content) ==
  LET ts == SelectSeq(content.parts, LAMBDA p : p.kind = "text" /\ p.text # "")
  IN IF content.role = "model" THEN [i \in 1..Len(ts) |-> ts[i].text] ELSE <<>>

\* Mutant of StoreContent: the thoughts are logged but not sent to the parent.
StoreContentUnpropagated(s, content) ==
  [s EXCEPT !.contents = Append(@, content),
            !.model_contents = @ \o ThoughtsOf(content)]

\* Mutant of StoreContent: the turn overwrites the last entry of the history.
StoreContentOverwrite(s, content) ==
  [s EXCEPT !.contents = [@ EXCEPT ![Len(@)] = content],
            !.model_contents = @ \o ThoughtsOf(content),
            !.outbox = IF s.is_root_agent THEN @ ELSE @ \o ThoughtsOf(content)]

\* Mutant of StoreContent: every line is sent to the parent twice.
StoreContentSentTwice(s, content) ==
  [s EXCEPT !.contents = Append(@, content),
            !.model_contents = @ \o ThoughtsOf(content),
            !.outbox = IF s.is_root_agent
                       THEN @ ELSE @ \o ThoughtsOf(content) \o ThoughtsOf(content)]

\* _store_content with _propagate_model_content.
StoreContent(s, content) ==
  [s EXCEPT !.contents = Append(@, content),
            !.model_contents = @ \o ThoughtsOf(content),
            !.outbox = IF s.is_root_agent THEN @ ELSE @ \o ThoughtsOf(content)]

FunctionCalls(content) ==
  SelectSeq(content.parts, LAMBDA p : p.kind = "function_call")

\* Content.text of a turn with a single text part.
ContentText(content) == content.parts[1].text

\* Mutant of RootRespond: the root goes on without waiting for a prompt.
RootRespondNoWait(s, content) ==
  IF s.pending_respond # 0
  THEN LoopTop(SetResult(s, ContentText(content)))
  ELSE LoopTop(s)

\* The finishing turn of a root: lines 94-98.
RootRespond(s, content) ==
  IF s.pending_respond # 0
  THEN WaitForPrompt(SetResult(s, ContentText(content)))
  ELSE LoopTop(s)

\* The body of run's loop once call_llm has answered: lines 80-101.
HandleCandidate(s, candidate) ==
  LET s0 == [s EXCEPT !.llm_input = NoCall]
  IN IF candidate.finish_reason = "MALFORMED_FUNCTION_CALL"
     THEN LoopTop([s0 EXCEPT !.contents = Append(@, UserText(candidate.finish_message))])
     ELSE LET s1 == StoreContent(s0, candidate.content)
          IN IF FunctionCalls(candidate.content) # <<>>
             THEN DispatchNext([s1 EXCEPT !.funcs = FunctionCalls(candidate.content),
                                          !.fidx = 1, !.parts = <<>>])
             ELSE IF candidate.finish_reason = "STOP"
                  THEN IF s1.is_root_agent
                       THEN RootRespond(s1, candidate.content)
                       ELSE [s1 EXCEPT !.pc = "done", !.result = Delta(s1)]
                  ELSE LoopTop(s1)

\* run from its first line to its first suspension point: lines 60-80.
RunStart(s) ==
  LET i == s.agent_input
      s1 == [s EXCEPT !.agent_name = i.agent_name,
                      !.contents = i.contents,
                      !.contents_starts_at = Len(i.contents),
                      !.model_contents = <<>>,
                      !.sub_agents = i.sub_agents,
                      !.is_root_agent = i.is_root_agent]
  IN IF i.prompt = ""
     THEN WaitForPrompt(s1)
     ELSE LoopTop([s1 EXCEPT !.contents = Append(@, UserText(i.prompt))])

\* The wait condition of _wait_for_prompt, re-evaluated after a handler ran.
WakeIfWaiting(s) ==
  IF s.pc = "wait_prompt" /\ Len(s.contents) # s.count THEN LoopTop(s) ELSE s

\* The prompt update handler up to its awaited future: lines 198-210; k is
\* the asyncio.Future it creates.
PromptHandler(s, prompt, k) ==
  [s EXCEPT !.terminate = IF prompt = "END" THEN TRUE ELSE @,
            !.contents = Append(@, UserText(prompt)),
            !.pending_respond = k]

\* Mutant of AddModelContent: the message is also put into the history.
AddModelContentToHistory(s, message) ==
  [s EXCEPT !.model_contents = Append(@, message),
            !.contents = Append(@, UserText(message))]

\* Mutant of AddModelContent: the message is passed on to the parent.
AddModelContentForwarded(s, message) ==
  [s EXCEPT !.model_contents = Append(@, message),
            !.outbox = IF s.is_root_agent THEN @ ELSE Append(@, message)]

\* The add_model_content signal handler.
AddModelContent(s, message) ==
  [s EXCEPT !.model_contents = Append(@, message)]

\* Mutant of GetModelContent: the slice starts one entry early.
GetModelContentFromPrevious(s, watermark) ==
  PySliceFrom(s.model_contents, IF watermark > 0 THEN watermark - 1 ELSE 0)

\* The get_model_content query handler.
GetModelContent(s, watermark) == PySliceFrom(s.model_contents, watermark)

----------------------------------------------------------------------------
\* Commands of a step, and the prompt calls' futures.

\* A prompt update call as its caller sees it: the history length when the
\* handler started (before), whether its future is resolved and the call has
\* returned (done), the text returned and the history length at the return.
NewCall(prompt, before) ==
  [prompt |-> prompt, before |-> before, done |-> FALSE, result |-> "", after |-> 0]

\* asyncio.Future.set_result raises InvalidStateError on a resolved future.
SetsResolved(cs, s) ==
  \E i \in 1..Len(s.emit) : cs[s.emit[i].fut].done

\* The futures after the set_result calls of s; the handler awaiting a future
\* returns its result in the same activation (line 211).
Resolve(cs, s) ==
  [k \in 1..Len(cs) |->
     IF ~cs[k].done /\ \E i \in 1..Len(s.emit) : s.emit[i].fut = k
     THEN LET e == s.emit[CHOOSE i \in 1..Len(s.emit) : s.emit[i].fut = k]
          IN [cs[k] EXCEPT !.done = TRUE, !.result = e.result,
                           !.after = Len(s.contents)]
     ELSE cs[k]]

ClearCommands(s) ==
  [s EXCEPT !.emit = <<>>, !.outbox = <<>>, !.spawn = <<>>, !.newcall = FALSE]

\* Instance d of stack has run to its next suspension point as s: resolve the
\* futures it set, send its thought signals to the parent, start the child
\* workflow it asked for under the identifier made with the token drawn for
\* it, count the gateway call it started.
Commit(stack, d, s, cs) ==
  LET s2 == ClearCommands(IF SetsResolved(cs, s) THEN [s EXCEPT !.pc = "failed"] ELSE s)
      st1 == [stack EXCEPT ![d] = s2]
      st2 == IF d > 1 THEN [st1 EXCEPT ![d - 1].signals = @ \o s.outbox] ELSE st1
      n == llm_calls + (IF s.newcall THEN 1 ELSE 0)
  IN /\ n <= MaxLLMCalls
     /\ IF s.spawn # <<>>
        THEN \E token \in TokenHex :
               inst' = Append(st2, NewInstance(s.spawn[1],
                                               ChildId(s.workflow_id, s.spawn[1].agent_name, token)))
        ELSE inst' = st2
     /\ calls' = Resolve(cs, s)
     /\ llm_calls' = n

\* A local tool's activity has answered: lines 185-193.
ActivityResult(s, func_rsp) ==
  CollectPart(s, FunctionResponsePart(s.funcs[s.fidx].name, func_rsp, <<>>))

\* Mutant of ActivityFailure: the failure is answered with an error part.
ActivityFailureSwallowed(s) ==
  CollectPart(s, FunctionResponsePart(s.funcs[s.fidx].name, "error", <<>>))

\* The awaited execute_activity raises: nothing in _invoke_as_activity,
\* _handle_function_calls or run catches it, so run ends with the exception.
ActivityFailure(s) == [s EXCEPT !.pc = "failed"]

\* Mutant of LLMFailure: the failed gateway call is made again.
LLMFailureRetried(s) == CallLLM(s)

\* The awaited call_llm activity raises (failure or timeout): nothing in
\* _call_llm or run catches it, so run ends with the exception.
LLMFailure(s) == [s EXCEPT !.pc = "failed"]

\* Mutant of ChildFailure: the failure is answered with an error part.
ChildFailureSwallowed(s) ==
  CollectPart(s, FunctionResponsePart(s.funcs[s.fidx].name, "error", <<>>))

\* The awaited execute_child_workflow raises because the child's run failed:
\* nothing in _invoke_as_child_workflow or its callers catches it.
ChildFailure(s) == [s EXCEPT !.pc = "failed"]

\* Mutant of ChildResult: the child's entries are also put into the history.
ChildResultMerged(s, func_rsp) ==
  CollectPart([s EXCEPT !.contents = @ \o func_rsp],
              FunctionResponsePart(s.funcs[s.fidx].name, "", func_rsp))

\* The child workflow has returned: lines 170-180.
ChildResult(s, func_rsp) ==
  CollectPart(s, FunctionResponsePart(s.funcs[s.fidx].name, "", func_rsp))

\* AgentConsole.__init__, with the console's locals: awaiting is the prompt
\* call _process_user_input awaits (0 if none; the polling task runs while it
\* is not 0), lines what the console has displayed.
NewConsole == [watermark |-> 0, awaiting |-> 0, lines |-> <<>>]

\* One iteration of _poll_agent_thoughts with the query's answer thoughts.
PollAgentThoughts(c, thoughts) ==
  [c EXCEPT !.lines = @ \o thoughts, !.watermark = @ + Len(thoughts)]

\* _process_user_input once the prompt call has returned result: lines 76-82.
ShowResult(c, result) ==
  [c EXCEPT !.lines = Append(@, result), !.watermark = @ + 1, !.awaiting = 0]

----------------------------------------------------------------------------
\* Session.start: the root workflow is started with the agent hierarchy, no
\* history and is_root_agent set.
Init ==
  /\ inst = << NewInstance(AgentWorkflowInput(RootAgent.name, AgentHierarchy(RootAgent),
                                              "", <<>>, TRUE),
                           RootWorkflowId) >>
  /\ calls = <<>>
  /\ llm_calls = 0
  /\ llm_trace = <<>>
  /\ polls = <<>>
  /\ build = BuildAll(NewBuild(RootAgent))
  /\ console = NewConsole

Top == Len(inst)

\* A started workflow (the root, or a child) runs to its first suspension.
Start ==
  /\ inst[Top].pc = "start"
  /\ Commit(inst, Top, RunStart(inst[Top]), calls)
  /\ UNCHANGED <<llm_trace, polls, build, console>>

\* An external caller's prompt update reaches the root.
PromptCall ==
  /\ Len(calls) < MaxPrompts
  /\ inst[1].pc \notin {"start", "done", "failed"}
  /\ \E p \in Prompts :
       Commit(inst, 1,
              WakeIfWaiting(PromptHandler(inst[1], p, Len(calls) + 1)),
              Append(calls, NewCall(p, Len(inst[1].contents))))
  /\ UNCHANGED <<llm_trace, polls, build, console>>

\* The call_llm activity answers with a candidate.
LLMReturn ==
  /\ inst[Top].pc = "await_llm"
  /\ \E c \in Candidates(inst[Top].agent_name) :
       /\ Commit(inst, Top, HandleCandidate(inst[Top], c), calls)
       /\ llm_trace' = Append(llm_trace, [agent_name |-> inst[Top].agent_name,
                                          candidate |-> c])
  /\ UNCHANGED <<polls, build, console>>

\* A local tool's activity answers.
ActivityReturn ==
  /\ inst[Top].pc = "await_activity"
  /\ inst[Top].activity.name \in RegisteredActivities
  /\ \E r \in ToolResults :
       Commit(inst, Top, ActivityResult(inst[Top], r), calls)
  /\ UNCHANGED <<llm_trace, polls, build, console>>

\* No activity of the requested name is registered with the worker: the
\* activity fails and the failure is raised at the await.
ActivityNotFound ==
  /\ inst[Top].pc = "await_activity"
  /\ inst[Top].activity.name \notin RegisteredActivities
  /\ Commit(inst, Top, ActivityFailure(inst[Top]), calls)
  /\ UNCHANGED <<llm_trace, polls, build, console>>

\* A registered local tool's activity fails or times out.
ActivityFails ==
  /\ inst[Top].pc = "await_activity"
  /\ inst[Top].activity.name \in RegisteredActivities
  /\ Commit(inst, Top, ActivityFailure(inst[Top]), calls)
  /\ UNCHANGED <<llm_trace, polls, build, console>>

\* The call_llm activity fails or times out.
LLMFails ==
  /\ inst[Top].pc = "await_llm"
  /\ Commit(inst, Top, LLMFailure(inst[Top]), calls)
  /\ UNCHANGED <<llm_trace, polls, build, console>>

\* A child workflow has failed; the failure is raised in its parent.
ChildFails ==
  /\ Top > 1
  /\ inst[Top].pc = "failed"
  /\ inst[Top - 1].pc = "await_child"
  /\ inst[Top - 1].signals = <<>>
  /\ Commit(SubSeq(inst, 1, Top - 1), Top - 1, ChildFailure(inst[Top - 1]), calls)
  /\ UNCHANGED <<llm_trace, polls, build, console>>

\* A child workflow has completed; its parent resumes with what it returned.
\* The signals the child sent are in the parent's history before the child's
\* completion, so they have been handled by then.
ChildReturn ==
  /\ Top > 1
  /\ inst[Top].pc = "done"
  /\ inst[Top - 1].pc = "await_child"
  /\ inst[Top - 1].signals = <<>>
  /\ Commit(SubSeq(inst, 1, Top - 1), Top - 1,
            ChildResult(inst[Top - 1], inst[Top].result), calls)
  /\ UNCHANGED <<llm_trace, polls, build, console>>

\* An add_model_content signal is handled by the instance it was sent to.
SignalDeliver ==
  /\ \E d \in 1..Len(inst) :
       /\ inst[d].signals # <<>>
       /\ inst' = [inst EXCEPT ![d] =
                     WakeIfWaiting([AddModelContent(inst[d], Head(inst[d].signals))
                                      EXCEPT !.signals = Tail(inst[d].signals)])]
  /\ UNCHANGED <<calls, llm_calls, llm_trace, polls, build, console>>

\* An external poller's get_model_content query is answered by the root.  A
\* query changes nothing in the workflow, so any two queries of a run are the
\* two queries of the run that makes only those: polls records two.
AnswerQuery(w) ==
  /\ inst[1].pc # "start"
  /\ polls' = Append(polls, [watermark |-> w,
                             count |-> Len(inst[1].model_contents),
                             result |-> GetModelContent(inst[1], w)])
  /\ UNCHANGED <<inst, calls, llm_calls, llm_trace, build, console>>

FirstQuery ==
  /\ polls = <<>>
  /\ build = BuildAll(NewBuild(RootAgent))
  /\ \E w \in 0..(Len(inst[1].model_contents) + 1) : AnswerQuery(w)

\* The later query, with a watermark not below the log's length at the first.
SecondQuery ==
  /\ Len(polls) = 1
  /\ \E w \in polls[1].count..(Len(inst[1].model_contents) + 1) : AnswerQuery(w)

\* A caller that sends its next prompt once the previous call has returned,
\* as AgentConsole does.
SequentialPrompt ==
  /\ \A k \in 1..Len(calls) : calls[k].done
  /\ PromptCall

Next ==
  \/ Start
  \/ PromptCall
  \/ LLMReturn
  \/ ActivityReturn
  \/ ChildReturn
  \/ SignalDeliver

Spec == Init /\ [][Next]_vars

\* The program with a single caller of prompt, which waits for each answer.
NextSeq ==
  \/ Start
  \/ SequentialPrompt
  \/ LLMReturn
  \/ ActivityReturn
  \/ ChildReturn
  \/ SignalDeliver

SpecSeq == Init /\ [][NextSeq]_vars

\* The program driven by a console: one caller of prompt, and a poller of the
\* thought log.
NextPoll ==
  \/ Start
  \/ SequentialPrompt
  \/ LLMReturn
  \/ ActivityReturn
  \/ ChildReturn
  \/ SignalDeliver
  \/ FirstQuery
  \/ SecondQuery

SpecPoll == Init /\ [][NextPoll]_vars

\* A root workflow started with an initiating prompt (AgentWorkflowInput.prompt
\* non-empty), which run appends before its first gateway call.
InitSeeded ==
  /\ inst = << NewInstance(AgentWorkflowInput(RootAgent.name, AgentHierarchy(RootAgent),
                                              "go", <<>>, TRUE),
                           RootWorkflowId) >>
  /\ calls = <<>>
  /\ llm_calls = 0
  /\ llm_trace = <<>>
  /\ polls = <<>>
  /\ build = BuildAll(NewBuild(RootAgent))
  /\ console = NewConsole

SpecSeeded == InitSeeded /\ [][NextSeq]_vars

\* Runner.__aenter__: the root workflow is started with Runner's agent tree.
InitRunner ==
  /\ inst = << NewInstance(AgentWorkflowInput(RootAgent.name, AgentTree(RootAgent),
                                              "", <<>>, TRUE),
                           RootWorkflowId) >>
  /\ calls = <<>>
  /\ llm_calls = 0
  /\ llm_trace = <<>>
  /\ polls = <<>>
  /\ build = BuildAll(NewBuild(RootAgent))
  /\ console = NewConsole

\* The composed program: the root workflow is started by a Session or by a
\* Runner, and the worker runs the activities Runner registered.
InitComposed == Init \/ InitRunner

NextComposed ==
  \/ Start
  \/ SequentialPrompt
  \/ LLMReturn
  \/ ActivityReturn
  \/ ActivityNotFound
  \/ ChildReturn
  \/ SignalDeliver

SpecComposed == InitComposed /\ [][NextComposed]_vars

\* inflection.parameterize on the agent names of the model.
Parameterize(name) ==
  CASE name = "Sub Agent" -> "sub-agent"
    [] name = "sub agent" -> "sub-agent"
    [] name = "Helper" -> "helper"
    [] OTHER -> name

\* Agent.__init__: the name is normalised, the rest is kept as given.
Agent(name, functions, sub_agents) ==
  [name |-> Parameterize(name), functions |-> functions, sub_agents |-> sub_agents]

\* The agents an application may compose: a root with up to two sub-agents,
\* each with one tool and at most one sub-agent of its own.
AgentNames == {"Sub Agent", "sub agent", "Helper"}

ToolNames == {"greet", "lookup"}

LeafAgents == {Agent(n, <<f>>, <<>>) : n \in AgentNames, f \in ToolNames}

MidAgents ==
  LeafAgents \cup {Agent(n[1], <<n[2]>>, <<a>>) :
                     n \in AgentNames \X ToolNames, a \in LeafAgents}

RootAgents ==
  {Agent("root", <<"greet">>, subs) :
     subs \in {<<>>} \cup {<<a>> : a \in MidAgents}
                    \cup {<<a, b>> : a \in MidAgents, b \in MidAgents}}

\* Session.start for the composition three agents deep.
InitDeep ==
  /\ inst = << NewInstance(AgentWorkflowInput(DeepRoot.name, AgentHierarchy(DeepRoot),
                                              "", <<>>, TRUE),
                           RootWorkflowId) >>
  /\ calls = <<>>
  /\ llm_calls = 0
  /\ llm_trace = <<>>
  /\ polls = <<>>
  /\ build = BuildAll(NewBuild(DeepRoot))
  /\ console = NewConsole

SpecDeep == InitDeep /\ [][NextSeq]_vars

\* LLMManager(root_agent) for an application's root agent, before _build_llms.
InitBuild ==
  /\ inst = <<>>
  /\ calls = <<>>
  /\ llm_calls = 0
  /\ llm_trace = <<>>
  /\ polls = <<>>
  /\ build \in {NewBuild(r) : r \in RootAgents}
  /\ console = NewConsole

\* _build_llms visits the next agent.
BuildAgent ==
  /\ build.todo # <<>>
  /\ build' = BuildLLMs(build)
  /\ UNCHANGED <<inst, calls, llm_calls, llm_trace, polls, console>>

NextBuild == BuildAgent

SpecBuild == InitBuild /\ [][NextBuild]_vars

\* The program with activities and child workflows that may fail.
NextFailing ==
  \/ Start
  \/ PromptCall
  \/ LLMReturn
  \/ LLMFails
  \/ ActivityReturn
  \/ ActivityFails
  \/ ChildReturn
  \/ ChildFails
  \/ SignalDeliver

SpecFailing == Init /\ [][NextFailing]_vars

\* The console sends the user's input as a prompt call and starts the polling
\* task: lines 69-75.
ConsoleInput ==
  /\ console.awaiting = 0
  /\ Len(calls) < MaxPrompts
  /\ inst[1].pc \notin {"start", "done", "failed"}
  /\ \E p \in Prompts :
       Commit(inst, 1,
              WakeIfWaiting(PromptHandler(inst[1], p, Len(calls) + 1)),
              Append(calls, NewCall(p, Len(inst[1].contents))))
  /\ console' = [console EXCEPT !.awaiting = Len(calls) + 1]
  /\ UNCHANGED <<llm_trace, polls, build>>

\* The polling task queries the thought log from its watermark on, displays
\* what it got and advances the watermark: lines 38-42.
ConsolePoll ==
  /\ console.awaiting # 0
  /\ inst[1].pc # "start"
  /\ console' = PollAgentThoughts(console, GetModelContent(inst[1], console.watermark))
  /\ UNCHANGED <<inst, calls, llm_calls, llm_trace, polls, build>>

\* The prompt call's result reaches the console, which displays it, advances
\* the watermark by one and cancels the polling task: lines 75-82.
ConsoleReturn ==
  /\ console.awaiting # 0
  /\ calls[console.awaiting].done
  /\ console' = ShowResult(console, calls[console.awaiting].result)
  /\ UNCHANGED <<inst, calls, llm_calls, llm_trace, polls, build>>

\* The program driven by an AgentConsole.
NextConsole ==
  \/ Start
  \/ ConsoleInput
  \/ ConsolePoll
  \/ ConsoleReturn
  \/ LLMReturn
  \/ ActivityReturn
  \/ ChildReturn
  \/ SignalDeliver

SpecConsole == Init /\ [][NextConsole]_vars

\* A client other than a child sends the add_model_content signal to the root
\* workflow (the handler is open to any holder of the workflow's handle); the
\* messages clients send, each of them once.
ClientMessages == {"note"}

SentToRoot(m) ==
  \E i \in 1..Len(inst[1].model_contents \o inst[1].signals) :
    (inst[1].model_contents \o inst[1].signals)[i] = m

ClientSignal ==
  /\ inst[1].pc \notin {"start", "done", "failed"}
  /\ \E m \in ClientMessages :
       /\ ~SentToRoot(m)
       /\ inst' = [inst EXCEPT ![1].signals = Append(@, m)]
  /\ UNCHANGED <<calls, llm_calls, llm_trace, polls, build, console>>

\* Session.thoughts() with its default watermark 0, once.
ThoughtsQuery ==
  /\ polls = <<>>
  /\ AnswerQuery(0)

\* The program with one caller of prompt, thought messages from the children
\* and from clients, and a query of the thought log.
NextSignal ==
  \/ Start
  \/ SequentialPrompt
  \/ LLMReturn
  \/ ActivityReturn
  \/ ChildReturn
  \/ SignalDeliver
  \/ ClientSignal
  \/ ThoughtsQuery

SpecSignal == Init /\ [][NextSignal]_vars

----------------------------------------------------------------------------
\* Properties.

Root == inst[1]

Unresolved == {k \in 1..Len(calls) : ~calls[k].done}

\* C1: every prompt call returns, and the history is strictly longer when it
\* returns than it was before the call: a call that has returned saw the
\* history grow, and the run loop does not go idle or end while a call made
\* to it has not returned.
C1_EveryPromptReturns ==
  \A k \in 1..Len(calls) :
    /\ calls[k].done => calls[k].after > calls[k].before
    /\ Root.pc \in {"wait_prompt", "done"} => calls[k].done

\* C2: at most one unresolved PendingResponse exists per instance at any time
\* (no unresolved future is replaced by a new one).
C2_AtMostOneUnresolved == Cardinality(Unresolved) <= 1

\* C3: once the sentinel "END" has been received the run loop goes on to its
\* terminal state: it is never suspended waiting for a further prompt.
C3_EndReachesTerminal == Root.terminate => Root.pc # "wait_prompt"

\* C4: the prompt call that carried "END" returns the empty string.
C4_EndReturnsEmpty ==
  \A k \in 1..Len(calls) :
    calls[k].done /\ calls[k].prompt = "END" => calls[k].result = ""

\* The suffix of a child's history beyond the history it was started with.
AppendedByChild(child) ==
  SubSeq(child.contents, Len(child.agent_input.contents) + 1, Len(child.contents))

\* The parts a parent has collected for the turn it is dispatching, once the
\* step is done: still in parts, or appended as the last entry.
PartsOfTurn(parent) ==
  IF parent.funcs = <<>> THEN Last(parent.contents).parts ELSE parent.parts

\* C5: when a child workflow's return reaches its parent, what it returned is
\* exactly the entries the child appended to the history it inherited, and the
\* parent takes it as one function-response part of a single new user entry.
C5_ChildDispatchDelta ==
  [][(Top > 1 /\ inst[Top].pc = "done" /\ Len(inst') = Top - 1) =>
       LET child == inst[Top]
           parent == inst[Top - 1]
           after == inst'[Top - 1]
       IN /\ IsPrefix(child.agent_input.contents, child.contents)
          /\ IsPrefix(child.agent_input.contents, parent.contents)
          /\ PartsOfTurn(after)[parent.fidx] =
               FunctionResponsePart(child.agent_name, "", AppendedByChild(child))
          /\ IF after.funcs = <<>>
             THEN /\ after.contents =
                       Append(parent.contents, Content("user", PartsOfTurn(after)))
                  /\ Len(PartsOfTurn(after)) = Len(parent.funcs)
             ELSE after.contents = parent.contents]_vars

C5_Witness ==
  \E i \in 1..Len(Root.contents) :
    /\ Root.contents[i].role = "user"
    /\ \E j \in 1..Len(Root.contents[i].parts) :
         /\ Root.contents[i].parts[j].kind = "function_response"
         /\ Len(Root.contents[i].parts[j].content) >= 2

\* The position of call k's prompt in the root's history.
PromptIndex(k) == calls[k].before + 1

\* C6: a prompt call (other than the sentinel) returns when the run loop
\* resolves its future, with the text of a finishing turn the gateway produced
\* from a history that contains the call's own user entry.
C6_AnswerFromOwnPrompt ==
  [][\A k \in 1..Len(calls) :
       (~calls[k].done /\ calls'[k].done /\ calls[k].prompt # "END") =>
         /\ Root.pc = "await_llm"
         /\ Len(llm_trace') = Len(llm_trace) + 1
         /\ Last(llm_trace').candidate = StopCandidate(calls'[k].result)
         /\ Len(Root.llm_input.contents) >= PromptIndex(k)
         /\ Root.llm_input.contents[PromptIndex(k)] = UserText(calls[k].prompt)]_vars

\* The positions of the thought log a query's answer covers.
Returned(poll) == {poll.watermark + j : j \in 1..Len(poll.result)}

\* C7: each query returns exactly the suffix of the thought log beyond its
\* watermark, and a later query whose watermark is at least the log's length
\* at an earlier query returns no entry the earlier one returned.
C7_WatermarkMonotonic ==
  /\ \A i \in 1..Len(polls) :
       /\ polls[i].count <= Len(Root.model_contents)
       /\ polls[i].result =
            SubSeq(Root.model_contents, polls[i].watermark + 1, polls[i].count)
  /\ Len(polls) = 2 /\ polls[2].watermark >= polls[1].count =>
       Returned(polls[1]) \cap Returned(polls[2]) = {}

C7_Witness ==
  /\ Len(polls) = 2
  /\ polls[1].result # <<>>
  /\ polls[2].result # <<>>
  /\ polls[2].watermark >= polls[1].count

\* C8: the history of a running instance only grows: a step leaves every
\* instance's earlier history as a prefix of its history.
C8_HistoryOnlyGrows ==
  [][\A d \in 1..Len(inst) :
       (d <= Len(inst') /\ inst'[d].pc # "start") =>
         IsPrefix(inst[d].contents, inst'[d].contents)]_vars

C8_Witness ==
  /\ Len(inst) = 2
  /\ Len(inst[1].contents) >= 3
  /\ Len(inst[2].contents) > Len(inst[2].agent_input.contents) + 1

\* One prompt was submitted to an idle root; the gateway has answered the
\* root as given by turns, in that order, and nobody else.
RootRound(turns) ==
  /\ Len(calls) = 1
  /\ Len(llm_trace) = Len(turns)
  /\ \A i \in 1..Len(turns) :
       /\ llm_trace[i].agent_name = turns[i][1]
       /\ llm_trace[i].candidate = turns[i][2]

\* C9: one prompt, the gateway requests the local tool and then finishes with
\* text T: the call returns T and the history is the prompt, the model turn
\* with the call, the user entry with the tool's result, the model turn T.
C9_ToolRound ==
  \A t \in FinalTexts :
    RootRound(<< <<"root", CallCandidate("greet")>>, <<"root", StopCandidate(t)>> >>) =>
      /\ calls[1].done
      /\ calls[1].result = t
      /\ \E r \in ToolResults :
           Root.contents =
             << UserText(calls[1].prompt),
                Content("model", <<FunctionCallPart("greet", ArgsOf("greet"))>>),
                Content("user", <<FunctionResponsePart("greet", r, <<>>)>>),
                Content("model", <<TextPart(t)>>) >>

C9_Witness ==
  RootRound(<< <<"root", CallCandidate("greet")>>, <<"root", StopCandidate("T1")>> >>)

\* The child round: the root's gateway requests the sub-agent, whose instance
\* is answered a tool request and then a finishing turn, has returned, and the
\* root has called the gateway again.
ChildRound ==
  /\ \E t \in FinalTexts :
       RootRound(<< <<"root", CallCandidate("sub")>>,
                    <<"sub", CallCandidate("lookup")>>,
                    <<"sub", StopCandidate(t)>> >>)
  /\ Len(inst) = 1
  /\ Root.pc = "await_llm"

\* The root's last entry is one function-response part carrying n entries.
ChildRoundDelta(n) ==
  LET e == Last(Root.contents)
  IN /\ Len(Root.contents) = 3
     /\ e.role = "user"
     /\ Len(e.parts) = 1
     /\ e.parts[1].kind = "function_response"
     /\ e.parts[1].name = "sub"
     /\ Len(e.parts[1].content) = n
     /\ Root.llm_input.contents = Root.contents

\* C10 as stated: the child that calls the gateway, one local tool and then
\* finishes returns a delta of exactly 2 entries.
C10_ChildDeltaTwoEntries == ChildRound => ChildRoundDelta(2)

\* C10 amended: the delta has exactly 4 entries (the child's initiating prompt,
\* its model turn with the tool call, the tool-result entry, its finishing
\* turn), and the parent appends it as one tool-result part before it calls
\* the gateway again.
C10_ChildDeltaFourEntries ==
  ChildRound =>
    /\ ChildRoundDelta(4)
    /\ LET delta == Last(Root.contents).parts[1].content
       IN /\ delta[1] = UserText(JsonDumps(ArgsOf("sub")))
          /\ delta[2] = CallCandidate("lookup").content
          /\ delta[3].role = "user"
          /\ delta[3].parts[1].kind = "function_response"
          /\ delta[4].role = "model"

C10_Witness == ChildRound

\* The step in which the gateway's answer reaches instance d (the top of the
\* stack), and the candidate it carries.
GatewayAnswers == Len(llm_trace') = Len(llm_trace) + 1

Answer == Last(llm_trace').candidate

\* A finishing turn: the gateway stops and requests no action.
IsFinishingTurn(c) ==
  c.finish_reason = "STOP" /\ FunctionCalls(c.content) = <<>>

\* C11: after a finishing turn a root instance is idle, waiting for the next
\* prompt, and has started no gateway call, whether or not a pending response
\* exists (also when it was started with an initiating prompt and no prompt
\* call was ever made).
C11_RootIdleAfterFinish ==
  [][(GatewayAnswers /\ Top = 1 /\ IsFinishingTurn(Answer)) =>
       /\ inst'[1].pc = "wait_prompt"
       /\ inst'[1].llm_input = NoCall]_vars


\* A turn that is not malformed and requests no action.
IsNoActionTurn(c) ==
  c.finish_reason # "MALFORMED_FUNCTION_CALL" /\ FunctionCalls(c.content) = <<>>

\* C12: every turn that is not malformed and requests no action is a finishing
\* turn whatever its finish reason: a root resolves the pending response and
\* goes idle, a non-root returns its delta, and no gateway call is started on
\* the history that ends with that model turn.
C12_NoActionTurnFinishes ==
  [][(GatewayAnswers /\ IsNoActionTurn(Answer)) =>
       LET after == inst'[Top]
       IN /\ after.llm_input = NoCall
          /\ IF Top = 1
             THEN after.pc = "wait_prompt" /\ \A k \in 1..Len(calls') : calls'[k].done
             ELSE after.pc = "done" /\ after.result = Delta(after)]_vars

\* What a malformed turn leaves of the instance that got it: one user entry
\* with the diagnostic message appended, nothing stored as a model turn or
\* logged as a thought, nothing sent to the parent, nothing dispatched.
MalformedAppendsDiagnostic ==
  LET before == inst[Top]
      after == inst'[Top]
  IN /\ Len(inst') = Len(inst)
     /\ after.contents = Append(before.contents, UserText(Answer.finish_message))
     /\ after.model_contents = before.model_contents
     /\ \A d \in 1..Len(inst) : inst'[d].signals = inst[d].signals
     /\ after.funcs = <<>>
     /\ after.activity = NoActivity

\* The instance has called the gateway again, on its current history.
CallsGatewayAgain(s) ==
  /\ s.pc = "await_llm"
  /\ s.llm_input = [agent_name |-> s.agent_name, contents |-> s.contents]

\* C13 as stated: on a malformed function call the instance appends exactly
\* one user entry with the diagnostic message, no model entry, no thought,
\* dispatches nothing, and calls the gateway again.
C13_MalformedRetries ==
  [][(GatewayAnswers /\ Answer = MalformedCandidate) =>
       /\ MalformedAppendsDiagnostic
       /\ CallsGatewayAgain(inst'[Top])]_vars

\* C13 amended: the same, and the gateway is called again unless the sentinel
\* "END" was received while the call was in flight, in which case the run
\* loop ends without a further gateway call.
C13_MalformedRetriesUnlessEnded ==
  [][(GatewayAnswers /\ Answer = MalformedCandidate) =>
       /\ MalformedAppendsDiagnostic
       /\ IF inst[Top].terminate
          THEN inst'[Top].pc = "done" /\ inst'[Top].llm_input = NoCall
          ELSE CallsGatewayAgain(inst'[Top])]_vars

C13_Witness ==
  /\ llm_trace # <<>>
  /\ Last(llm_trace).candidate = MalformedCandidate
  /\ CallsGatewayAgain(inst[Top])
  /\ Last(inst[Top].contents) = UserText(MalformedCandidate.finish_message)
  /\ inst[Top].contents_starts_at > 0

\* The response parts ps answer the function calls fs one for one, in order.
AnswersInOrder(ps, fs) ==
  /\ Len(ps) <= Len(fs)
  /\ \A i \in 1..Len(ps) :
       ps[i].kind = "function_response" /\ ps[i].name = fs[i].name

\* The last model turn of a history.
LastModelTurn(contents) ==
  contents[CHOOSE i \in 1..Len(contents) :
             /\ contents[i].role = "model"
             /\ \A j \in (i + 1)..Len(contents) : contents[j].role # "model"]

\* Instance d is dispatching the actions of its last model turn one at a time
\* in request order: the calls before fidx are answered, one part each, the
\* call fidx is the one in flight and no later call has been started.
DispatchesOneAtATime(d) ==
  LET s == inst[d]
  IN IF s.funcs = <<>>
     THEN s.pc \notin {"await_activity", "await_child"} /\ s.parts = <<>>
     ELSE /\ s.funcs = FunctionCalls(LastModelTurn(s.contents))
          /\ s.fidx \in 1..Len(s.funcs)
          /\ Len(s.parts) = s.fidx - 1
          /\ AnswersInOrder(s.parts, s.funcs)
          /\ \/ /\ s.pc = "await_activity"
                /\ s.activity.name = s.funcs[s.fidx].name
                /\ d = Len(inst)
             \/ /\ s.pc = "await_child"
                /\ d + 1 = Len(inst)
                /\ inst[d + 1].agent_input.agent_name = s.funcs[s.fidx].name

\* The step that answers the last action of the turn instance d dispatches.
DispatchEnds(d) ==
  /\ d = Len(inst')
  /\ d <= Len(inst)
  /\ inst[d].funcs # <<>>
  /\ inst'[d].funcs = <<>>

\* The response parts of the turn are appended as one user entry, in order.
AppendsOneResponseEntry(d) ==
  LET e == Last(inst'[d].contents)
  IN /\ inst'[d].contents = Append(inst[d].contents, e)
     /\ e.role = "user"
     /\ Len(e.parts) = Len(inst[d].funcs)
     /\ AnswersInOrder(e.parts, inst[d].funcs)

Dispatching(s) == s.funcs # <<>> /\ s.pc \in {"await_child", "await_activity"}

ActionName(s) == s.funcs[s.fidx].name

\* C15: an action is dispatched as a child agent exactly if its name is a
\* direct sub-agent of the current agent (never the current agent itself or
\* a deeper descendant), and as a local tool otherwise.
C15_ChildIffDirectSubAgent ==
  \A d \in 1..Len(inst) :
    Dispatching(inst[d]) =>
      LET agent == AgentNamed(inst[d].agent_name)
      IN /\ inst[d].pc = "await_child" <=> ActionName(inst[d]) \in SubAgentNames(agent)
         /\ inst[d].pc = "await_activity" => inst[d].activity.name = ActionName(inst[d])

\* The nested mapping h is the hierarchy of agent: one key per direct
\* sub-agent, mapped to that sub-agent's hierarchy (empty for a leaf).
RECURSIVE IsHierarchyOf(_, _)
IsHierarchyOf(h, agent) ==
  /\ DOMAIN h = SubAgentNames(agent)
  /\ \A i \in 1..Len(agent.sub_agents) :
       IsHierarchyOf(h[agent.sub_agents[i].name], agent.sub_agents[i])

\* C16: the hierarchy passed to the root instance maps each direct sub-agent
\* name to that sub-agent's hierarchy, recursively, and does not have the
\* root agent's own name as a key.
C16_HierarchyOfRoot ==
  /\ IsHierarchyOf(Root.agent_input.sub_agents, RootAgent)
  /\ RootAgent.name \notin DOMAIN Root.agent_input.sub_agents

\* The values of an argument map, and the values an activity was given.
ArgValues(a) == {a[i][2] : i \in 1..Len(a)}

PassedValues(t) == {t[i] : i \in 1..Len(t)}

\* The step in which the local tool's result reaches instance Top.
ToolAnswers ==
  /\ inst[Top].pc = "await_activity"
  /\ Len(inst') >= Top
  /\ inst'[Top].pc # "failed"
  /\ inst'[Top].fidx # inst[Top].fidx

\* C17: a local-tool dispatch invokes the activity named by the action with
\* every argument value the model supplied, and the raw result is wrapped as
\* one tool-result part named after the action.
C17_AllArgumentsReachTool ==
  /\ [](\A d \in 1..Len(inst) :
          inst[d].pc = "await_activity" =>
            /\ inst[d].activity.name = ActionName(inst[d])
            /\ ArgValues(inst[d].funcs[inst[d].fidx].args)
                 = PassedValues(inst[d].activity.args))
  /\ [][ToolAnswers =>
          \E r \in ToolResults :
            PartsOfTurn(inst'[Top])[inst[Top].fidx]
              = FunctionResponsePart(ActionName(inst[Top]), r, <<>>)]_vars

\* The action instance s is dispatching names neither a key of its agent tree
\* nor a registered activity.
Unresolvable(s) ==
  /\ s.funcs # <<>>
  /\ ActionName(s) \notin DOMAIN s.sub_agents
  /\ ActionName(s) \notin RegisteredActivities

\* C18: an action whose name is neither a direct child agent nor a registered
\* local tool is fatal: the only step the instance takes is to fail, it
\* appends no response entry for that turn and starts no further gateway call.
C18_ResolutionFailureIsFatal ==
  [][\A d \in 1..Len(inst) :
       Unresolvable(inst[d]) =>
         /\ d <= Len(inst')
         /\ inst[d].pc \in {"await_activity", "failed"}
         /\ inst'[d] # inst[d] => inst[d].pc = "await_activity" /\ inst'[d].pc = "failed"
         /\ inst'[d].contents = inst[d].contents
         /\ inst'[d].parts = inst[d].parts
         /\ inst'[d].llm_input = NoCall
         /\ llm_calls' = llm_calls]_vars

C18_Witness ==
  \E d \in 1..Len(inst) :
    /\ Unresolvable(inst[d])
    /\ inst[d].pc = "failed"
    /\ Last(inst[d].contents).role = "model"

\* C19: registry consistency.  Every action name declared to the gateway for
\* the agent of a running instance is a key of the instance's agent tree or a
\* registered activity, so no dispatch of a declared name is unresolvable.
C19_DeclaredNamesResolve ==
  \A d \in 1..Len(inst) :
    inst[d].pc # "start" =>
      /\ \A n \in DeclaredNames(AgentNamed(inst[d].agent_name)) :
           n \in DOMAIN inst[d].sub_agents \/ n \in RegisteredActivities
      /\ ~Unresolvable(inst[d])

\* The texts of the text parts of the model turns of a history, in order.
RECURSIVE TextsOfTurns(_)
TextsOfTurns(cs) ==
  IF cs = <<>> THEN <<>>
  ELSE LET c == Head(cs)
           ts == SelectSeq(c.parts, LAMBDA p : p.kind = "text")
       IN (IF c.role = "model" THEN [i \in 1..Len(ts) |-> ts[i].text] ELSE <<>>)
            \o TextsOfTurns(Tail(cs))

\* C20: every text part of a model turn is appended to the instance's thought
\* log, in part order, in the step that stores the turn: the log has them
\* while the turn's actions are dispatched, when the pending response is
\* resolved and when the delta is returned.  For an instance without
\* sub-agents the log is at all times the texts of the turns it has stored.
C20_ThoughtsLoggedWhenStored ==
  /\ [](\A d \in 1..Len(inst) :
          (inst[d].pc # "start" /\ DOMAIN inst[d].sub_agents = {}) =>
            inst[d].model_contents = TextsOfTurns(AppendedByChild(inst[d])))
  /\ [][(GatewayAnswers /\ Answer # MalformedCandidate) =>
          /\ Last(inst'[Top].contents) = Answer.content
          /\ inst'[Top].model_contents
               = inst[Top].model_contents \o TextsOfTurns(<<Answer.content>>)]_vars

C20_Witness ==
  /\ Len(inst) = 1
  /\ Root.pc = "await_activity"
  /\ Root.parts = <<>>
  /\ Len(Root.model_contents) >= 2
  /\ SubSeq(Root.model_contents, Len(Root.model_contents) - 1, Len(Root.model_contents))
       = <<"thinking", "and then">>

\* The step in which instance d handles the first of its pending signals.
HandlesSignal(d) ==
  /\ d <= Len(inst')
  /\ inst[d].signals # <<>>
  /\ inst'[d].signals = Tail(inst[d].signals)

\* C21: each line a non-root instance logs from a model turn is also sent to
\* its immediate parent, in the same order, and the parent appends it to its
\* own thought log when it handles the message; a root sends no message.
C21_ThoughtsSentToParent ==
  /\ [][(GatewayAnswers /\ Answer # MalformedCandidate) =>
          /\ \A d \in 1..Len(inst) :
               inst'[d].signals =
                 inst[d].signals \o (IF d = Top - 1
                                     THEN TextsOfTurns(<<Answer.content>>)
                                     ELSE <<>>)
          /\ inst[Top].is_root_agent => Top = 1]_vars
  /\ [][\A d \in 1..Len(inst) :
          HandlesSignal(d) =>
            inst'[d].model_contents =
              Append(inst[d].model_contents, Head(inst[d].signals))]_vars

C21_Witness ==
  /\ Len(inst) = 2
  /\ inst[2].model_contents = <<"cut">>
  /\ Root.signals = <<>>
  /\ Root.model_contents = <<"cut">>

\* Instance d's awaited gateway or local-tool call fails in this step.
CallFailsAt(d) ==
  /\ d <= Len(inst')
  /\ inst[d].pc \in {"await_llm", "await_activity"}
  /\ inst'[d].pc = "failed"
  /\ llm_trace' = llm_trace

\* C22: a local-tool or gateway call failure is not caught: the instance
\* ends as failed in that step having appended nothing and started nothing
\* (a gateway call that got no answer is not made again), a failed instance
\* takes no further step, and a prompt call pending on a
\* failed root is never answered with a text.
C22_CallFailureIsFatal ==
  /\ [][\A d \in 1..Len(inst) :
          CallFailsAt(d) =>
            /\ Len(inst') = Len(inst)
            /\ inst'[d].contents = inst[d].contents
            /\ inst'[d].model_contents = inst[d].model_contents
            /\ inst'[d].parts = inst[d].parts
            /\ llm_calls' = llm_calls
            /\ calls' = calls]_vars
  /\ [][\A d \in 1..Len(inst) :
          (inst[d].pc = "await_llm" /\ llm_trace' = llm_trace) =>
            /\ inst'[d].pc \in {"await_llm", "failed"}
            /\ llm_calls' = llm_calls]_vars
  /\ [][\A d \in 1..Len(inst) :
          inst[d].pc = "failed" =>
            /\ d <= Len(inst') => inst'[d] = inst[d]
            /\ llm_calls' = llm_calls
            /\ d = 1 => calls' = calls]_vars

C22_Witness ==
  /\ Root.pc = "failed"
  /\ Unresolved # {}
  /\ Root.activity.name = "greet"
  /\ Root.parts = <<>>

\* The agent definitions of the tree below (and including) agent.
RECURSIVE AgentsOf(_)
AgentsOf(agent) ==
  {agent} \cup UNION {AgentsOf(agent.sub_agents[i]) : i \in 1..Len(agent.sub_agents)}

BuildDone == build.todo = <<>>

\* C23: every gateway call of an instance carries the instance's agent name
\* and full current history, and the call for an agent of the composed tree,
\* at whatever level, is served with the model and the tool and child schemas
\* built from that agent's own definition.
C23_ServedByOwnDefinition ==
  /\ [][llm_calls' = llm_calls + 1 => CallsGatewayAgain(inst'[Len(inst')])]_vars
  /\ [](BuildDone =>
          \A a \in AgentsOf(build.root) :
            /\ a.name \in DOMAIN build.llms
            /\ build.llms[a.name].agent = a
            /\ build.llms[a.name].declared = DeclaredNames(a))

C25_OneEntryPerAgent ==
  BuildDone =>
    /\ DOMAIN build.llms = {a.name : a \in AgentsOf(build.root)}
    /\ Cardinality(DOMAIN build.llms) = Cardinality(AgentsOf(build.root))
    /\ build.root.sub_agents = <<>> => Cardinality(DOMAIN build.llms) = 1

\* C26: a child instance is constructed as a non-root with the parent's
\* history at spawn time as its initial history, the sub-tree the parent's
\* agent tree holds under the action's name, and, once it runs, a delta
\* offset equal to the length of that initial history for the whole run.
C26_ChildConstruction ==
  /\ [](\A d \in 2..Len(inst) :
          LET child == inst[d]
              parent == inst[d - 1]
          IN /\ child.agent_input.is_root_agent = FALSE
             /\ child.agent_input.agent_name = ActionName(parent)
             /\ child.agent_input.sub_agents = parent.sub_agents[ActionName(parent)]
             /\ IsPrefix(child.agent_input.contents, parent.contents)
             /\ child.pc # "start" =>
                  /\ child.is_root_agent = FALSE
                  /\ child.sub_agents = child.agent_input.sub_agents
                  /\ child.contents_starts_at = Len(child.agent_input.contents)
                  /\ IsPrefix(child.agent_input.contents, child.contents))
  /\ [][Len(inst') = Len(inst) + 1 =>
          inst'[Top + 1].agent_input.contents = inst'[Top].contents]_vars

C26_Witness ==
  /\ Len(inst) = 2
  /\ inst[2].pc = "done"
  /\ inst[2].contents_starts_at >= 2
  /\ Len(inst[2].contents) >= inst[2].contents_starts_at + 4
  /\ Len(Root.contents) > inst[2].contents_starts_at

\* C27: an instance has at most one action in flight, a local tool's activity
\* or a child run, and while the action is in flight it has no gateway call
\* outstanding, collects nothing and starts nothing; a parent leaves its wait
\* for a child only when the child's run has ended.
C27_OneActionInFlight ==
  /\ [](\A d \in 1..Len(inst) :
          /\ inst[d].pc = "await_activity" =>
               /\ d = Len(inst)
               /\ inst[d].activity.name = ActionName(inst[d])
               /\ inst[d].llm_input = NoCall
          /\ inst[d].pc = "await_child" =>
               /\ d + 1 = Len(inst)
               /\ inst[d].activity = NoActivity
               /\ inst[d].llm_input = NoCall
          /\ inst[d].pc \notin {"await_child", "start"} => d = Len(inst))
  /\ [][\A d \in 1..Len(inst) :
          (Dispatching(inst[d]) /\ d <= Len(inst') /\ inst'[d].fidx = inst[d].fidx) =>
            /\ inst'[d].pc \in {inst[d].pc, "failed"}
            /\ inst'[d].activity = inst[d].activity
            /\ inst'[d].parts = inst[d].parts
            /\ inst'[d].llm_input = NoCall
            /\ inst[d].pc = "await_activity" => Len(inst') = Len(inst)]_vars
  /\ [][\A d \in 1..Len(inst) :
          (inst[d].pc = "await_child" /\ d <= Len(inst') /\ inst'[d].pc # "await_child") =>
            /\ inst[d + 1].pc \in {"done", "failed"}
            /\ Len(inst') = d]_vars

C27_Witness ==
  /\ Len(inst) = 2
  /\ Root.pc = "await_child"
  /\ Root.fidx = 2
  /\ inst[2].pc = "await_activity"

\* The only change of a history a prompt call makes: its user entry appended.
PromptAppended(d) ==
  /\ d = 1
  /\ Len(calls') = Len(calls) + 1
  /\ inst'[d].contents = Append(inst[d].contents, UserText(Last(calls').prompt))

\* C28: instance isolation.  While an instance has a dispatch in flight its
\* history is unchanged whatever its child appends to its own, unless a prompt
\* call appends to it; a child's run changes the parent's history only by the
\* response entry the parent appends once the run has completed and every
\* action of the turn is answered.
C28_InstanceIsolation ==
  [][\A d \in 1..Len(inst) :
       (Dispatching(inst[d]) /\ d <= Len(inst') /\ inst'[d].pc # "failed") =>
         IF inst'[d].fidx = inst[d].fidx
         THEN inst'[d].contents = inst[d].contents \/ PromptAppended(d)
         ELSE /\ inst[d].pc = "await_child" =>
                   /\ inst[d + 1].pc = "done"
                   /\ PartsOfTurn(inst'[d])[inst[d].fidx]
                        = FunctionResponsePart(ActionName(inst[d]), "", inst[d + 1].result)
              /\ IF inst'[d].funcs = <<>>
                 THEN inst'[d].contents
                        = Append(inst[d].contents, Content("user", PartsOfTurn(inst'[d])))
                 ELSE inst'[d].contents = inst[d].contents]_vars

C28_Witness ==
  /\ Len(inst) = 2
  /\ Root.pc = "await_child"
  /\ Len(Root.contents) = inst[2].contents_starts_at
  /\ Len(inst[2].contents) >= inst[2].contents_starts_at + 3

\* Instance d issues the command that starts a child workflow in this step.
StartsChild(d) ==
  /\ d = Len(inst)
  /\ Len(inst') = d + 1
  /\ inst'[d].pc = "await_child"

\* C29: replay determinism.  The commands an instance issues are determined by
\* its input and the external results it has received: the identifier under
\* which it starts a child is the same in every execution that reaches the
\* dispatch, whatever the token drawn for it, and the history it goes on with
\* is the one it had.
C29_ReplayDeterminism ==
  [][\A d \in 1..Len(inst) :
       StartsChild(d) =>
         /\ \A token \in TokenHex :
              inst'[d + 1].workflow_id
                = ChildId(inst[d].workflow_id, ActionName(inst'[d]), token)
         /\ inst'[d + 1].agent_input.contents = inst'[d].contents]_vars

\* A child has been started under an identifier made with a drawn token.
C29_Witness ==
  /\ Len(inst) = 2
  /\ inst[2].workflow_id = ChildId(RootWorkflowId, inst[2].agent_input.agent_name, "ffffff")

\* C30: after composition the sub-agents of every agent have pairwise distinct
\* normalised names, so the agent tree and the declared child schemas hold
\* exactly one entry for each declared sub-agent.
C30_SiblingNamesUnique ==
  \A a \in AgentsOf(build.root) :
    /\ \A i, j \in 1..Len(a.sub_agents) :
         i # j => a.sub_agents[i].name # a.sub_agents[j].name
    /\ Cardinality(DOMAIN AgentTree(a)[a.name]) = Len(a.sub_agents)
    /\ Cardinality(DOMAIN AgentHierarchy(a)) = Len(a.sub_agents)
    /\ Cardinality(SubAgentNames(a)) = Len(a.sub_agents)

\* C31: a PendingResponse is resolved at most once.  In every interleaving
\* of prompt calls, the termination sentinel and gateway results the run loop
\* never calls set_result on a future that is already resolved (which would
\* raise and end the run), and a resolved call keeps the result it was given.
C31_ResolvedAtMostOnce ==
  /\ [](\A d \in 1..Len(inst) : inst[d].pc # "failed")
  /\ [][\A k \in 1..Len(calls) : calls[k].done => calls'[k] = calls[k]]_vars

\* Two futures have been resolved in turn, the later one by the sentinel's
\* exit, and the run went on after the first.
C31_Witness ==
  /\ Len(calls) = 2
  /\ calls[1].done /\ calls[1].result \in FinalTexts
  /\ calls[2].done /\ calls[2].prompt = "END"
  /\ Root.pc = "done"

\* Entry e carries the responses to exactly the actions model entry m requests.
RespondsTo(e, m) ==
  /\ e.role = "user"
  /\ Len(e.parts) = Len(FunctionCalls(m))
  /\ AnswersInOrder(e.parts, FunctionCalls(m))

\* C32: in the history of any instance every model entry that requests
\* actions is immediately followed by the user entry carrying the responses
\* to exactly those actions (or is the last entry, while they are dispatched);
\* no other entry is ever placed between them.
C32_ResponsesFollowRequests ==
  \A d \in 1..Len(inst) :
    \A i \in 1..Len(inst[d].contents) :
      LET m == inst[d].contents[i]
      IN (m.role = "model" /\ FunctionCalls(m) # <<>>) =>
           IF i = Len(inst[d].contents)
           THEN inst[d].pc \in {"await_activity", "await_child", "failed"}
           ELSE RespondsTo(inst[d].contents[i + 1], m)

\* C33: a child instance never waits for a prompt.  Its initiating prompt,
\* the serialized arguments of the action, is not empty, so the child appends
\* it as the first entry of its delta and goes straight to its first gateway
\* call.
C33_ChildNeverIdle ==
  /\ [](\A d \in 2..Len(inst) :
          LET child == inst[d]
          IN /\ child.agent_input.prompt # ""
             /\ child.agent_input.prompt = JsonDumps(inst[d - 1].funcs[inst[d - 1].fidx].args)
             /\ child.pc # "wait_prompt"
             /\ child.pc # "start" =>
                  /\ child.contents_starts_at = Len(child.agent_input.contents)
                  /\ Len(child.contents) > child.contents_starts_at
                  /\ Delta(child)[1] = UserText(child.agent_input.prompt))
  /\ [][\A d \in 2..Len(inst) :
          (inst[d].pc = "start" /\ Len(inst') = Len(inst) /\ inst'[d].pc # "start") =>
            /\ inst'[d].pc = "await_llm"
            /\ llm_calls' = llm_calls + 1
            /\ inst'[d].contents
                 = Append(inst[d].agent_input.contents, UserText(inst[d].agent_input.prompt))]_vars

C33_Witness ==
  /\ Len(inst) = 2
  /\ inst[2].pc = "await_llm"
  /\ Delta(inst[2]) = <<UserText(inst[2].agent_input.prompt)>>

\* C34: handling a thought message (add_model_content) or answering a thought
\* query (get_model_content) leaves the instance's history, pending response
\* and terminate flag unchanged; a thought message appends exactly one entry
\* to the thought log and leaves the instance where it is suspended, so an
\* instance waiting for a prompt goes on waiting.
C34_ThoughtHandlersFrame ==
  /\ [][\A d \in 1..Len(inst) :
          HandlesSignal(d) =>
            /\ inst'[d].contents = inst[d].contents
            /\ inst'[d].pending_respond = inst[d].pending_respond
            /\ inst'[d].terminate = inst[d].terminate
            /\ Len(inst'[d].model_contents) = Len(inst[d].model_contents) + 1
            /\ SubSeq(inst'[d].model_contents, 1, Len(inst[d].model_contents))
                 = inst[d].model_contents
            /\ inst'[d].pc = inst[d].pc
            /\ calls' = calls /\ llm_calls' = llm_calls]_vars
  /\ [][polls' # polls =>
          /\ inst' = inst /\ calls' = calls /\ llm_calls' = llm_calls
          /\ Last(polls').result = GetModelContent(Root, Last(polls').watermark)]_vars

\* An idle root has handled a thought message after its answer and is idle.
C34_Witness ==
  /\ Len(calls) = 1 /\ calls[1].done
  /\ Root.pc = "wait_prompt"
  /\ Root.signals = <<>>
  /\ Len(Root.model_contents) = 2
  /\ Root.model_contents[1] \in FinalTexts
  /\ Root.model_contents[2] \in ClientMessages
  /\ Len(polls) = 1
  /\ Len(polls[1].result) = 2

\* C37: the console's polling watermark never exceeds the length of the
\* root's thought log and never skips an entry the console has not displayed,
\* in any interleaving of the polling task with the completion of a prompt
\* call.
C37_WatermarkWithinLog ==
  /\ console.watermark <= Len(Root.model_contents)
  /\ \A i \in 1..console.watermark :
       i <= Len(Root.model_contents) =>
         \E j \in 1..Len(console.lines) : console.lines[j] = Root.model_contents[i]

\* The number of lines the agents named in names have logged from their own
\* model turns, by the gateway's answers in trace.
RECURSIVE LinesBy(_, _)
LinesBy(names, trace) ==
  IF trace = <<>> THEN 0
  ELSE (IF Head(trace).agent_name \in names
        THEN Len(ThoughtsOf(Head(trace).candidate.content))
        ELSE 0) + LinesBy(names, Tail(trace))

\* C35: thoughts propagate exactly one level.  A line an instance receives
\* from its child is appended to its own thought log and sent no further, so
\* what the root has logged or received are its own lines and those of its
\* direct child, never a line of an instance two or more levels below it.
C35_ThoughtsOneLevel ==
  /\ [][\A d \in 1..Len(inst) :
          HandlesSignal(d) =>
            /\ inst'[d].model_contents = Append(inst[d].model_contents, Head(inst[d].signals))
            /\ inst'[d].outbox = <<>>
            /\ \A e \in 1..Len(inst) : e # d => inst'[e] = inst[e]]_vars
  /\ [](Root.pc # "start" =>
          /\ Len(Root.model_contents) + Len(Root.signals)
               = LinesBy({DeepRoot.name, DeepMid.name}, llm_trace)
          /\ \A d \in 2..Len(inst) :
               inst[d].agent_name = DeepLeaf.name =>
                 inst[d].model_contents = TextsOfTurns(AppendedByChild(inst[d])))

\* The instance two levels below the root has logged a line, its parent has
\* handled it, and the root has neither logged nor received it.
C35_Witness ==
  /\ Len(inst) = 3
  /\ inst[3].model_contents # <<>>
  /\ inst[2].signals = <<>>
  /\ Len(inst[2].model_contents) = Len(inst[3].model_contents) + 1
  /\ Root.signals = <<>>
  /\ Len(Root.model_contents) = 1

IsSuffix(xs, ys) ==
  /\ Len(xs) <= Len(ys)
  /\ SubSeq(ys, Len(ys) - Len(xs) + 1, Len(ys)) = xs

RECURSIVE TreeHeight(_)
TreeHeight(h) ==
  IF DOMAIN h = {} THEN 0
  ELSE LET hs == {TreeHeight(h[n]) : n \in DOMAIN h}
       IN 1 + CHOOSE m \in hs : \A k \in hs : k <= m

\* C38: nesting is bounded by the agent tree.  Each child instance is given
\* the strict sub-tree its parent's tree holds under its name, so an instance
\* of a leaf agent never spawns a child, and the chain of nested live
\* instances is never longer than the root's tree is high.
C38_NestingBoundedByTree ==
  /\ Len(inst) <= 1 + TreeHeight(Root.agent_input.sub_agents)
  /\ \A d \in 1..Len(inst) :
       /\ Len(inst) - d <= TreeHeight(inst[d].agent_input.sub_agents)
       /\ d > 1 =>
            /\ inst[d].agent_input.agent_name \in DOMAIN inst[d - 1].sub_agents
            /\ inst[d].agent_input.sub_agents
                 = inst[d - 1].sub_agents[inst[d].agent_input.agent_name]
            /\ TreeHeight(inst[d].agent_input.sub_agents)
                 < TreeHeight(inst[d - 1].agent_input.sub_agents)
       /\ DOMAIN inst[d].agent_input.sub_agents = {} =>
            /\ d = Len(inst)
            /\ inst[d].pc # "await_child"

\* An instance of the leaf agent, two levels below the root, dispatches an
\* action: as a local tool.
C38_Witness ==
  /\ Len(inst) = 3
  /\ inst[3].agent_name = DeepLeaf.name
  /\ inst[3].pc = "await_activity"
  /\ TreeHeight(Root.agent_input.sub_agents) = 2

\* C39: a failure of a child instance propagates to its parent.  When the
\* child's run has failed the parent fails too, in the step that raises the
\* failure in it, without appending a response entry for the turn that
\* spawned the child and without a further gateway call; until then, and ever
\* after, it starts nothing and its history changes only by a prompt's entry.
C39_ChildFailurePropagates ==
  /\ [][\A d \in 1..Len(inst) :
          (d < Len(inst) /\ inst[d + 1].pc = "failed" /\ d <= Len(inst')) =>
            /\ inst[d].pc = "await_child"
            /\ llm_calls' = llm_calls
            /\ inst'[d].contents = inst[d].contents \/ PromptAppended(d)
            /\ IF Len(inst') = d
               THEN /\ inst'[d].pc = "failed"
                    /\ inst'[d].contents = inst[d].contents
                    /\ inst'[d].llm_input = NoCall
               ELSE /\ inst'[d].pc = "await_child"
                    /\ inst'[d + 1] = inst[d + 1]]_vars
  /\ [][\A d \in 1..Len(inst) :
          (inst[d].pc = "failed" /\ d <= Len(inst')) =>
            /\ inst'[d].pc = "failed"
            /\ inst'[d].contents = inst[d].contents
            /\ llm_calls' = llm_calls]_vars

\* The root has failed with its child's failure: its history ends with the
\* model turn that requested the child, with no response entry after it.
C39_Witness ==
  /\ Len(inst) = 1
  /\ Root.pc = "failed"
  /\ Root.funcs # <<>>
  /\ ActionName(Root) = "sub"
  /\ Last(Root.contents).role = "model"
  /\ FunctionCalls(Last(Root.contents)) = Root.funcs

====
